---- MODULE Spec2Model ----
(***************************************************************************)
(* Model of backend/server.py (Mandoob Pro API): the distance model, the   *)
(* two-phase greedy route sequencer optimize_route, the profit evaluator   *)
(* calculate_profits, and the order-store endpoints that call them.        *)
(*                                                                         *)
(* Numbers.  The program computes with Python floats.  Here every float is *)
(* a fixed-point integer with four decimals: a coordinate 30.0444 is       *)
(* 300444, a distance 1.4151 km is 14151, a fee 15 EGP is 150000.  A       *)
(* square root is rounded down to the fourth decimal.  Python's int()      *)
(* truncates toward zero and is modelled as such.                          *)
(*                                                                         *)
(* Optional values (None or a value) are sequences: <<>> is None and <<v>> *)
(* is the value v.                                                         *)
(***************************************************************************)
EXTENDS Integers, Sequences, FiniteSets, TLC

VARIABLES
    orders,            \* optimize_route / calculate_profits argument: list of Order
    start_arg,         \* the start_location argument as passed by the caller
    start_location,    \* optimize_route local (lines 128-130)
    unvisited,         \* optimize_route local (line 141)
    optimized_points,  \* optimize_route local (line 139)
    pickup_completed,  \* optimize_route local (line 142)
    current_location,  \* optimize_route local (line 140)
    route,             \* the Route returned by optimize_route
    profit_info,       \* the dict returned by calculate_profits
    error,             \* the exception that propagated out of the call
    db,                \* db.orders, in insertion order
    response,          \* the body of the HTTP response of the current request
    request,           \* the endpoint and the parameters of the current request
    mock_ids,          \* the client's copy of the ids of the last mock orders
    uuid_count,        \* how many uuid4 values have been drawn so far
    pc                 \* position of the caller / of optimize_route

vars == <<orders, start_arg, start_location, unvisited, optimized_points,
          pickup_completed, current_location, route, profit_info, error,
          db, response, request, mock_ids, uuid_count, pc>>

\* What the sequencer and the evaluator never touch.
client_vars == <<request, mock_ids, uuid_count>>

-----------------------------------------------------------------------------
(* Bounds of the model *)

MaxOrders == 3     \* longest order list passed to optimize_route
MaxStored == 2     \* most orders ever inserted into db.orders
MaxIds == 2        \* longest order_ids list of an optimize request
MaxUuids == 4      \* no mock order is generated beyond this many uuid4 values

-----------------------------------------------------------------------------
(* Program constants *)

Scale == 10000               \* fixed-point units per 1.0 of a float
KmPerDegree == 111           \* calculate_distance: "* 111"
AvgSpeed == 30               \* "/ 30": average speed, km/h
MinutesPerHour == 60         \* "* 60": convert to minutes
base_fee_per_order == 15     \* Egyptian Pounds
distance_fee_per_km == 2     \* Egyptian Pounds per km

None == <<>>
Some(v) == <<v>>

Location(lat, lng) == [lat |-> lat, lng |-> lng]

\* Locations of the mock table (lines 381-382) and of the API test.
Downtown == Location(300444, 312357)
Tahrir == Location(300566, 312394)
\* Tahrir turned a quarter turn around Downtown: as far from Downtown as
\* Tahrir is, which makes the symmetric, tie-prone layouts.
Mirror == Location(300481, 312235)
\* The driver's position used by get_mock_optimization and the API test.
DriverLocation == Location(300600, 312300)

Locations == {Downtown, Tahrir, Mirror}
\* No start, a start away from every stop, a start on a stop.
StartArgs == {None, Some(DriverLocation), Some(Downtown)}

Order(id, pickup, delivery) ==
    [id |-> id, pickup_location |-> pickup, delivery_location |-> delivery,
     status |-> "pending"]

\* Every list of n orders over Locations; the ids are distinct (uuid4).
OrderListsOfLen(n) ==
    { [i \in 1..n |-> Order(i, f[i][1], f[i][2])] :
        f \in [1..n -> Locations \X Locations] }

OrderLists == UNION { OrderListsOfLen(n) : n \in 0..MaxOrders }

-----------------------------------------------------------------------------
(* Arithmetic *)

RECURSIVE ISqrtIter(_, _, _)
ISqrtIter(n, lo, hi) ==
    IF lo >= hi THEN lo
    ELSE LET mid == (lo + hi + 1) \div 2
         IN  IF mid * mid <= n THEN ISqrtIter(n, mid, hi)
                               ELSE ISqrtIter(n, lo, mid - 1)

\* Largest r with r * r <= n.
ISqrt(n) == ISqrtIter(n, 0, 46340)

\* Python int(num / den) for den > 0: truncation toward zero.
IntOf(num, den) ==
    IF num >= 0 THEN num \div den ELSE -((-num) \div den)

\* |x|
Abs(x) == IF x >= 0 THEN x ELSE -x

\* a slip in the metric: city-block distance in place of the euclidean one
calculate_distance_Manhattan(point1, point2) ==
    (Abs(point1.lat - point2.lat) + Abs(point1.lng - point2.lng)) * KmPerDegree

\* calculate_distance: euclidean([lat1, lng1], [lat2, lng2]) * 111
calculate_distance(point1, point2) ==
    LET dlat == point1.lat - point2.lat
        dlng == point1.lng - point2.lng
    IN  ISqrt((dlat * dlat + dlng * dlng) * KmPerDegree * KmPerDegree)

-----------------------------------------------------------------------------
(* List helpers of optimize_route *)

Point(order_id, location, is_pickup) ==
    [order_id |-> order_id, location |-> location, is_pickup |-> is_pickup]

\* lines 133-136: pickup then delivery of each order, in input order
RECURSIVE AllPoints(_)
AllPoints(os) ==
    IF os = <<>> THEN <<>>
    ELSE <<Point(Head(os).id, Head(os).pickup_location, TRUE),
           Point(Head(os).id, Head(os).delivery_location, FALSE)>>
         \o AllPoints(Tail(os))

\* list.remove(x): drops the first element equal to x
RECURSIVE Remove(_, _)
Remove(s, x) ==
    IF s = <<>> THEN <<>>
    ELSE IF Head(s) = x THEN Tail(s)
    ELSE <<Head(s)>> \o Remove(Tail(s), x)

\* a slip in the minimum: a later element replaces the best on a tie
RECURSIVE MinIter_LastWins(_, _, _)
MinIter_LastWins(points, cur, best) ==
    IF points = <<>> THEN best
    ELSE IF calculate_distance(cur, Head(points).location)
              <= calculate_distance(cur, best.location)
         THEN MinIter_LastWins(Tail(points), cur, Head(points))
         ELSE MinIter_LastWins(Tail(points), cur, best)

\* min(points, key=distance from cur): the first element whose key is
\* smallest; a later element replaces the best only when strictly smaller.
RECURSIVE MinIter(_, _, _)
MinIter(points, cur, best) ==
    IF points = <<>> THEN best
    ELSE IF calculate_distance(cur, Head(points).location)
              < calculate_distance(cur, best.location)
         THEN MinIter(Tail(points), cur, Head(points))
         ELSE MinIter(Tail(points), cur, best)

Nearest(points, cur) == MinIter(Tail(points), cur, Head(points))

\* a slip in line 145: only the first unvisited point is looked at
AnyPickup_FirstOnly(unv) == unv # <<>> /\ unv[1].is_pickup

\* line 145: any(point["is_pickup"] for point in unvisited)
AnyPickup(unv) == \E i \in 1..Len(unv) : unv[i].is_pickup

\* a slip in the filter of line 146: deliveries are candidates too
PickupPoints_Unfiltered(unv) == unv

\* line 146
PickupPoints(unv) == SelectSeq(unv, LAMBDA p : p.is_pickup)

\* a slip in the filter of lines 164-165: the membership test is negated
DeliveryPoints_Negated(unv, completed) ==
    SelectSeq(unv, LAMBDA p : (~p.is_pickup) /\ p.order_id \notin completed)

\* lines 164-165
DeliveryPoints(unv, completed) ==
    SelectSeq(unv, LAMBDA p : (~p.is_pickup) /\ p.order_id \in completed)

\* lines 181-187: the loop that adds up the legs
RECURSIVE SumLegs(_, _)
SumLegs(prev_location, points) ==
    IF points = <<>> THEN 0
    ELSE calculate_distance(prev_location, Head(points).location)
         + SumLegs(Head(points).location, Tail(points))

\* a slip in line 182: the leg from the start to the first stop is left out
TotalDistance_FromFirstStop(start, points) ==
    SumLegs(points[1].location, points)

\* lines 181-187
TotalDistance(start, points) == SumLegs(start, points)

\* a slip in line 190: round() in place of int()
TotalTime_Rounded(total_distance) ==
    (total_distance * MinutesPerHour * 2 + AvgSpeed * Scale)
        \div (2 * AvgSpeed * Scale)

\* line 190: int(total_distance / 30 * 60)
TotalTime(total_distance) ==
    IntOf(total_distance * MinutesPerHour, AvgSpeed * Scale)

MakeRoute(points, total_distance, total_time) ==
    [points |-> points, total_distance |-> total_distance,
     total_time |-> total_time]

-----------------------------------------------------------------------------
(* calculate_profits *)

\* a slip in line 221: the way back is left out
RECURSIVE IndividualDistance_OneWay(_)
IndividualDistance_OneWay(os) ==
    IF os = <<>> THEN 0
    ELSE calculate_distance(Head(os).pickup_location,
                            Head(os).delivery_location)
         + IndividualDistance_OneWay(Tail(os))

\* lines 217-222
RECURSIVE IndividualDistance(_)
IndividualDistance(os) ==
    IF os = <<>> THEN 0
    ELSE calculate_distance(Head(os).pickup_location,
                            Head(os).delivery_location) * 2
         + IndividualDistance(Tail(os))

\* line 230: int((individual_distance / 30 * 60) - total_time)
TimeSaved(individual_distance, total_time) ==
    IntOf(individual_distance * MinutesPerHour - total_time * AvgSpeed * Scale,
          AvgSpeed * Scale)

\* a slip in line 227: the merged profit is paid on the individual distance
calculate_profits_SameDistance(os, optimized_route) ==
    LET individual_distance == IndividualDistance(os)
    IN  [individual_profit |->
             Len(os) * base_fee_per_order * Scale
             + individual_distance * distance_fee_per_km,
         merged_profit |->
             Len(os) * base_fee_per_order * Scale
             + individual_distance * distance_fee_per_km,
         time_saved |->
             TimeSaved(individual_distance, optimized_route.total_time),
         distance_saved |->
             individual_distance - optimized_route.total_distance]

\* lines 207-238
calculate_profits(os, optimized_route) ==
    LET individual_distance == IndividualDistance(os)
    IN  [individual_profit |->
             Len(os) * base_fee_per_order * Scale
             + individual_distance * distance_fee_per_km,
         merged_profit |->
             Len(os) * base_fee_per_order * Scale
             + optimized_route.total_distance * distance_fee_per_km,
         time_saved |->
             TimeSaved(individual_distance, optimized_route.total_time),
         distance_saved |->
             individual_distance - optimized_route.total_distance]

-----------------------------------------------------------------------------
(* The sequencer, one action per step of optimize_route *)

Init ==
    /\ orders \in OrderLists
    /\ start_arg \in StartArgs
    /\ start_location = None
    /\ unvisited = <<>>
    /\ optimized_points = <<>>
    /\ pickup_completed = {}
    /\ current_location = None
    /\ route = None
    /\ profit_info = None
    /\ error = None
    /\ db = <<>>
    /\ response = None
    /\ request = None
    /\ mock_ids = <<>>
    /\ uuid_count = 0
    /\ pc = "ready"

\* lines 128-130: the first order's pickup when no start is supplied
StartingPoint(os, start) ==
    IF start = None THEN os[1].pickup_location ELSE start[1]

\* a slip in line 125: an empty list is let through when a start is given
InvalidInput_OnlyWithoutStart(os, start) ==
    IF os = <<>> /\ start = None THEN Some("ValueError") ELSE None

\* lines 125-126: the exception optimize_route raises on entry, or None
InvalidInput(os, start) ==
    IF os = <<>> THEN Some("ValueError") ELSE None

\* lines 125-142: the empty-list check, the starting point, the point list
optimize_route_enter ==
    /\ UNCHANGED client_vars
    /\ pc = "ready"
    /\ IF InvalidInput(orders, start_arg) # None
       THEN /\ error' = InvalidInput(orders, start_arg)
            /\ pc' = "raised"
            /\ UNCHANGED <<start_location, unvisited, current_location>>
       ELSE LET start == StartingPoint(orders, start_arg)
            IN  /\ start_location' = Some(start)
                /\ current_location' = Some(start)
                /\ unvisited' = AllPoints(orders)
                /\ pc' = "pickups"
                /\ error' = error
    /\ optimized_points' = <<>>
    /\ pickup_completed' = {}
    /\ UNCHANGED <<orders, start_arg, route, profit_info, db, response>>

\* lines 145-160: one turn of the pickup loop
PickupIter ==
    /\ UNCHANGED client_vars
    /\ pc = "pickups"
    /\ AnyPickup(unvisited)
    /\ LET nearest == Nearest(PickupPoints(unvisited), current_location[1])
       IN  /\ optimized_points' = Append(optimized_points, nearest)
           /\ pickup_completed' = pickup_completed \cup {nearest.order_id}
           /\ unvisited' = Remove(unvisited, nearest)
           /\ current_location' = Some(nearest.location)
    /\ UNCHANGED <<orders, start_arg, start_location, route, profit_info,
                   error, db, response, pc>>

\* line 145: the loop condition is false (line 147-148 cannot be taken:
\* the condition of the loop already says that a pickup is unvisited)
PickupExit ==
    /\ UNCHANGED client_vars
    /\ pc = "pickups"
    /\ ~AnyPickup(unvisited)
    /\ pc' = "deliveries"
    /\ UNCHANGED <<orders, start_arg, start_location, unvisited,
                   optimized_points, pickup_completed, current_location,
                   route, profit_info, error, db, response>>

\* lines 163-178: one turn of the delivery loop
DeliveryIter ==
    /\ UNCHANGED client_vars
    /\ pc = "deliveries"
    /\ unvisited # <<>>
    /\ DeliveryPoints(unvisited, pickup_completed) # <<>>
    /\ LET nearest == Nearest(DeliveryPoints(unvisited, pickup_completed),
                              current_location[1])
       IN  /\ optimized_points' = Append(optimized_points, nearest)
           /\ unvisited' = Remove(unvisited, nearest)
           /\ current_location' = Some(nearest.location)
    /\ UNCHANGED <<orders, start_arg, start_location, pickup_completed,
                   route, profit_info, error, db, response, pc>>

\* line 163 false or the break of lines 166-167, then lines 180-205
optimize_route_return ==
    /\ UNCHANGED client_vars
    /\ pc = "deliveries"
    /\ \/ unvisited = <<>>
       \/ DeliveryPoints(unvisited, pickup_completed) = <<>>
    /\ LET total_distance == TotalDistance(start_location[1], optimized_points)
       IN  route' = Some(MakeRoute(optimized_points, total_distance,
                                   TotalTime(total_distance)))
    /\ pc' = "returned"
    /\ UNCHANGED <<orders, start_arg, start_location, unvisited,
                   optimized_points, pickup_completed, current_location,
                   profit_info, error, db, response>>

\* calculate_profits(orders, optimized_route), as lines 355 and 437 call it
calculate_profits_call ==
    /\ UNCHANGED client_vars
    /\ pc = "returned"
    /\ profit_info' = Some(calculate_profits(orders, route[1]))
    /\ pc' = "done"
    /\ UNCHANGED <<orders, start_arg, start_location, unvisited,
                   optimized_points, pickup_completed, current_location,
                   route, error, db, response>>

\* calculate_profits(orders, r) called on its own with a Route r that need
\* not come from optimize_route: only r.total_distance and r.total_time
\* are read (lines 227-231).
SampleRoutes ==
    { MakeRoute(<<>>, d, t) : d \in {0, 50000}, t \in {0, 11} }

calculate_profits_direct(r) ==
    /\ UNCHANGED client_vars
    /\ pc = "ready"
    /\ route' = Some(r)
    /\ profit_info' = Some(calculate_profits(orders, r))
    /\ pc' = "evaluated"
    /\ UNCHANGED <<orders, start_arg, start_location, unvisited,
                   optimized_points, pickup_completed, current_location,
                   error, db, response>>

Sequencer ==
    \/ optimize_route_enter
    \/ PickupIter
    \/ PickupExit
    \/ DeliveryIter
    \/ optimize_route_return
    \/ calculate_profits_call

Next ==
    \/ Sequencer
    \/ \E r \in SampleRoutes : calculate_profits_direct(r)

Spec == Init /\ [][Next]_vars

-----------------------------------------------------------------------------
(* The endpoints over the order store *)

\* uuid4 strings are modelled as numbers; one id is never stored
IdUniverse == 1..(MaxStored + 1)

RECURSIVE SeqsUpTo(_, _)
SeqsUpTo(S, n) ==
    IF n = 0 THEN {<<>>}
    ELSE LET shorter == SeqsUpTo(S, n - 1)
         IN  shorter \cup { Append(s, x) : s \in shorter, x \in S }

\* db.orders.find_one({"id": order_id}): the first match, or None
find_one(store, order_id) ==
    LET found == SelectSeq(store, LAMBDA o : o.id = order_id)
    IN  IF found = <<>> THEN None ELSE Some(found[1])

\* lines 344-349: the ids left of the first id that is not stored
RECURSIVE FirstMissing(_, _)
FirstMissing(store, order_ids) ==
    IF order_ids = <<>> THEN None
    ELSE IF find_one(store, Head(order_ids)) = None THEN Some(Head(order_ids))
    ELSE FirstMissing(store, Tail(order_ids))

\* lines 344-349: the orders fetched, in the order of the request
FetchOrders(store, order_ids) ==
    [i \in 1..Len(order_ids) |-> find_one(store, order_ids[i])[1]]

InitApi ==
    /\ orders = <<>>
    /\ start_arg = None
    /\ start_location = None
    /\ unvisited = <<>>
    /\ optimized_points = <<>>
    /\ pickup_completed = {}
    /\ current_location = None
    /\ route = None
    /\ profit_info = None
    /\ error = None
    /\ db = <<>>
    /\ response = None
    /\ request = None
    /\ mock_ids = <<>>
    /\ uuid_count = 0
    /\ pc = "idle"

\* str(uuid.uuid4()): the k-th value drawn after n values; no value is
\* drawn twice
uuid4(n, k) == n + k

\* The request a handler is serving.
Request(endpoint, order_ids, location) ==
    [endpoint |-> endpoint, order_ids |-> order_ids,
     current_location |-> location]

\* POST /orders, lines 300-305
create_order(pickup, delivery) ==
    /\ pc = "idle"
    /\ Len(db) < MaxStored
    /\ LET order_obj == Order(uuid4(uuid_count, 1), pickup, delivery)
       IN  /\ db' = Append(db, order_obj)
           /\ response' = Some(order_obj)
    /\ uuid_count' = uuid_count + 1
    /\ request' = Some(Request("create_order", <<>>, None))
    /\ mock_ids' = mock_ids
    /\ pc' = "responded"
    /\ UNCHANGED <<orders, start_arg, start_location, unvisited,
                   optimized_points, pickup_completed, current_location,
                   route, profit_info, error>>

\* POST /orders/optimize, lines 341-352: fetch the orders, then call
\* optimize_route(orders, request.current_location)
optimize_orders(order_ids, request_location) ==
    /\ pc = "idle"
    /\ request' = Some(Request("optimize_orders", order_ids, request_location))
    /\ UNCHANGED <<mock_ids, uuid_count>>
    /\ IF FirstMissing(db, order_ids) # None
       THEN /\ error' = Some("HTTP404")
            /\ pc' = "raised"
            /\ UNCHANGED <<orders, start_arg>>
       ELSE /\ orders' = FetchOrders(db, order_ids)
            /\ start_arg' = request_location
            /\ pc' = "ready"
            /\ error' = error
    /\ UNCHANGED <<start_location, unvisited, optimized_points,
                   pickup_completed, current_location, route, profit_info,
                   db, response>>

\* lines 357-364
optimize_orders_respond ==
    /\ UNCHANGED client_vars
    /\ pc = "done"
    /\ response' = Some([route |-> route[1],
                         estimated_profit |-> profit_info[1].merged_profit,
                         individual_profit |-> profit_info[1].individual_profit,
                         merged_profit |-> profit_info[1].merged_profit,
                         time_saved |-> profit_info[1].time_saved,
                         distance_saved |-> profit_info[1].distance_saved])
    /\ pc' = "responded"
    /\ UNCHANGED <<orders, start_arg, start_location, unvisited,
                   optimized_points, pickup_completed, current_location,
                   route, profit_info, error, db>>

\* The request is over: the response or the error has gone to the client,
\* the handler's locals are gone, the store stays.  Of a mock-orders
\* response the client keeps the ids (backend_test.py, line 113).
RequestEnd ==
    /\ pc \in {"responded", "raised"}
    /\ orders' = <<>>
    /\ start_arg' = None
    /\ start_location' = None
    /\ unvisited' = <<>>
    /\ optimized_points' = <<>>
    /\ pickup_completed' = {}
    /\ current_location' = None
    /\ route' = None
    /\ profit_info' = None
    /\ error' = None
    /\ response' = None
    /\ request' = None
    /\ mock_ids' = IF request[1].endpoint = "get_mock_orders" /\ pc = "responded"
                   THEN [i \in 1..Len(response[1]) |-> response[1][i].id]
                   ELSE mock_ids
    /\ pc' = "idle"
    /\ UNCHANGED <<db, uuid_count>>

NextApi ==
    \/ \E pickup \in Locations, delivery \in Locations :
           create_order(pickup, delivery)
    \/ \E order_ids \in SeqsUpTo(IdUniverse, MaxIds), loc \in StartArgs :
           optimize_orders(order_ids, loc)
    \/ Sequencer
    \/ optimize_orders_respond
    \/ RequestEnd

SpecApi == InitApi /\ [][NextApi]_vars

-----------------------------------------------------------------------------
(* The mock-orders endpoint and the client of the API test *)

\* Another entry of the table of lines 380-389.
GardenCity == Location(300484, 312354)

\* The part of the table of lines 380-389 the model draws from.
MockLocations == {Downtown, Tahrir, GardenCity}

\* lines 394-397: a pickup and a delivery at different entries of the table
MockPicks ==
    { pd \in MockLocations \X MockLocations : pd[1] # pd[2] }

\* GET /mock/orders, lines 374-418: count orders built in memory, each with
\* a uuid4 of its own, and returned; nothing is written to db.orders.
get_mock_orders(count, picks) ==
    /\ pc = "idle"
    /\ uuid_count + count <= MaxUuids
    /\ LET mock_orders ==
             [i \in 1..count |->
                 Order(uuid4(uuid_count, i), picks[i][1], picks[i][2])]
       IN  response' = Some(mock_orders)
    /\ uuid_count' = uuid_count + count
    /\ request' = Some(Request("get_mock_orders", <<>>, None))
    /\ pc' = "responded"
    /\ UNCHANGED <<orders, start_arg, start_location, unvisited,
                   optimized_points, pickup_completed, current_location,
                   route, profit_info, error, db, mock_ids>>

\* The requests of backend_test.py: mock orders (test_02, test_06), the
\* order of test_04, and optimize requests over the ids drawn so far and
\* one id never drawn.
NextMock ==
    \/ \E count \in 1..MaxIds :
         \E picks \in [1..count -> MockPicks] : get_mock_orders(count, picks)
    \/ create_order(Downtown, Tahrir)
    \/ \E order_ids \in SeqsUpTo(1..(uuid_count + 1), MaxIds),
          loc \in StartArgs :
           optimize_orders(order_ids, loc)
    \/ Sequencer
    \/ optimize_orders_respond
    \/ RequestEnd

SpecMock == InitApi /\ [][NextMock]_vars

\* An optimize request for exactly the ids of the last mock orders, with a
\* current location, has been answered.
MockIdsOptimized ==
    /\ pc \in {"responded", "raised"}
    /\ request # None
    /\ request[1].endpoint = "optimize_orders"
    /\ mock_ids # <<>>
    /\ request[1].order_ids = mock_ids
    /\ request[1].current_location # None

\* C11: after the mock-orders endpoint has returned orders, an optimize
\* request for exactly the ids of those orders, with a current location,
\* succeeds: its response carries the route and the profit figures, and it
\* is not answered 'order not found'.
C11_MockThenOptimize ==
    MockIdsOptimized =>
        /\ pc = "responded"
        /\ error = None
        /\ response # None
        /\ response[1].route = route[1]
        /\ response[1].merged_profit = profit_info[1].merged_profit

-----------------------------------------------------------------------------
(* The update endpoint and the life of a stored order *)

\* class OrderStatus, lines 37-41
OrderStatus == {"pending", "picked_up", "delivered", "cancelled"}

\* The "status" of a request body: absent or null, a member of OrderStatus,
\* or a string that is none (the body is an unvalidated dict, line 326).
BodyStatuses == {None} \cup { Some(v) : v \in OrderStatus \cup {"returned"} }

\* lines 333 and 336: {"$set": ...} of the fields of the body that are not
\* None, on the first order with this id
RECURSIVE update_one(_, _, _)
update_one(store, order_id, body_status) ==
    IF store = <<>> THEN <<>>
    ELSE IF Head(store).id = order_id
         THEN <<IF body_status = None
                THEN Head(store)
                ELSE [Head(store) EXCEPT !.status = body_status[1]]>>
              \o Tail(store)
         ELSE <<Head(store)>> \o update_one(Tail(store), order_id, body_status)

\* PUT /orders/{order_id}, lines 325-338.  Order(**updated_order) of line
\* 338 rejects a status outside OrderStatus, after the store was written.
update_order(order_id, body_status) ==
    /\ pc = "idle"
    /\ request' = Some(Request("update_order", <<order_id>>, None))
    /\ IF find_one(db, order_id) = None
       THEN /\ error' = Some("HTTP404")
            /\ pc' = "raised"
            /\ UNCHANGED <<db, response>>
       ELSE /\ db' = update_one(db, order_id, body_status)
            /\ LET updated_order == find_one(db', order_id)[1]
               IN  IF updated_order.status \in OrderStatus
                   THEN /\ response' = Some(updated_order)
                        /\ pc' = "responded"
                        /\ error' = error
                   ELSE /\ error' = Some("ValidationError")
                        /\ pc' = "raised"
                        /\ response' = response
    /\ UNCHANGED <<orders, start_arg, start_location, unvisited,
                   optimized_points, pickup_completed, current_location,
                   route, profit_info, mock_ids, uuid_count>>

\* Orders are created (the order of test_04) and updated, by any id drawn
\* so far or one never drawn.
NextStore ==
    \/ create_order(Downtown, Tahrir)
    \/ \E order_id \in 1..(uuid_count + 1), body_status \in BodyStatuses :
           update_order(order_id, body_status)
    \/ RequestEnd

SpecStore == InitApi /\ [][NextStore]_vars

\* A status may stay, or move one step along the life of an order.
Allowed(old, new) ==
    \/ new = old
    \/ old = "pending" /\ new \in {"picked_up", "cancelled"}
    \/ old = "picked_up" /\ new \in {"delivered", "cancelled"}

\* C12: across create-order and update-order operations a stored order
\* starts as pending and its status only changes pending -> picked_up ->
\* delivered, or to cancelled from pending or picked_up; it never leaves
\* delivered or cancelled, never goes back, never skips picked_up.
C12_Lifecycle ==
    [][ /\ Len(db') >= Len(db)
        /\ \A i \in 1..Len(db) :
              /\ db'[i].id = db[i].id
              /\ Allowed(db[i].status, db'[i].status)
        /\ \A i \in (Len(db) + 1)..Len(db') : db'[i].status = "pending"
      ]_vars

-----------------------------------------------------------------------------
(* Properties of the route returned by optimize_route *)

\* optimize_route has returned its Route to the caller
Returned == pc \in {"returned", "done"}

RoutePoints == route[1].points

PickupIndexes(id) ==
    { k \in 1..Len(RoutePoints) :
        RoutePoints[k].order_id = id /\ RoutePoints[k].is_pickup }

DeliveryIndexes(id) ==
    { k \in 1..Len(RoutePoints) :
        RoutePoints[k].order_id = id /\ ~RoutePoints[k].is_pickup }

\* C1: in the route returned for a non-empty order list, every order has a
\* pickup stop and a delivery stop, and each pickup stop of an order is at
\* a strictly smaller index than each delivery stop of that order.
C1_Precedence ==
    Returned =>
        \A i \in 1..Len(orders) :
            /\ PickupIndexes(orders[i].id) # {}
            /\ DeliveryIndexes(orders[i].id) # {}
            /\ \A a \in PickupIndexes(orders[i].id),
                  b \in DeliveryIndexes(orders[i].id) : a < b

\* A route was returned for orders with coinciding locations: one order is
\* picked up and delivered at the same place, where another order also stops.
C1_Witness ==
    /\ Returned
    /\ \E i, j \in 1..Len(orders) :
          /\ i # j
          /\ orders[i].pickup_location = orders[i].delivery_location
          /\ orders[j].pickup_location = orders[i].pickup_location
          /\ start_arg # None

\* C2: the route returned for N >= 1 orders with distinct ids has exactly 2N
\* stops, one pickup and one delivery per order and none of another order,
\* and the delivery loop has left no stop unvisited.
C2_Completeness ==
    Returned =>
        /\ Len(RoutePoints) = 2 * Len(orders)
        /\ \A i \in 1..Len(orders) :
              /\ Cardinality(PickupIndexes(orders[i].id)) = 1
              /\ Cardinality(DeliveryIndexes(orders[i].id)) = 1
        /\ \A k \in 1..Len(RoutePoints) :
              \E i \in 1..Len(orders) : RoutePoints[k].order_id = orders[i].id
        /\ unvisited = <<>>

C2_Witness ==
    /\ Returned
    /\ Len(orders) >= 2
    /\ Len(RoutePoints) = 2 * Len(orders)

-----------------------------------------------------------------------------
(* Properties of the selection steps *)

\* Position of the order with this id in the input list (ids are distinct).
InputIndex(id) == CHOOSE i \in 1..Len(orders) : orders[i].id = id

InRoute(point) ==
    \E k \in 1..Len(optimized_points) : optimized_points[k] = point

\* Where the driver stands before the next stop is chosen.
Standing ==
    IF optimized_points = <<>>
    THEN (IF start_arg = None THEN orders[1].pickup_location ELSE start_arg[1])
    ELSE optimized_points[Len(optimized_points)].location

\* The stops a step may choose from: in the pickup phase the pickups not yet
\* in the route, in the delivery phase the deliveries not yet in the route
\* whose pickup is in the route.
Eligible ==
    IF pc = "pickups"
    THEN { Point(orders[i].id, orders[i].pickup_location, TRUE) :
             i \in { j \in 1..Len(orders) :
                       ~InRoute(Point(orders[j].id,
                                      orders[j].pickup_location, TRUE)) } }
    ELSE { Point(orders[i].id, orders[i].delivery_location, FALSE) :
             i \in { j \in 1..Len(orders) :
                       /\ InRoute(Point(orders[j].id,
                                        orders[j].pickup_location, TRUE))
                       /\ ~InRoute(Point(orders[j].id,
                                         orders[j].delivery_location, FALSE)) } }

\* The step appends one stop.
Appends == Len(optimized_points') = Len(optimized_points) + 1

Chosen == optimized_points'[Len(optimized_points')]

\* C4: every stop appended, in the pickup phase and in the delivery phase,
\* is an eligible stop at minimum distance from the current location, and
\* among the eligible stops at that distance it is the one whose order is
\* first in the input list.  The choice is therefore a function of the
\* inputs: two calls with the same inputs return the same stop order.
C4_NearestFirst ==
    [][ Appends =>
          /\ Chosen \in Eligible
          /\ \A e \in Eligible :
                /\ calculate_distance(Standing, Chosen.location)
                     <= calculate_distance(Standing, e.location)
                /\ (calculate_distance(Standing, Chosen.location)
                      = calculate_distance(Standing, e.location))
                     => InputIndex(Chosen.order_id) <= InputIndex(e.order_id)
      ]_vars

\* A symmetric layout: the first stop was chosen while a pickup at another
\* place, just as far from the start, was waiting.
C4_Witness ==
    /\ pc = "pickups"
    /\ Len(optimized_points) = 1
    /\ \E j \in 1..Len(unvisited) :
          /\ unvisited[j].is_pickup
          /\ unvisited[j].location # optimized_points[1].location
          /\ calculate_distance(start_location[1], unvisited[j].location)
               = calculate_distance(start_location[1],
                                    optimized_points[1].location)

-----------------------------------------------------------------------------
(* Properties of the totals *)

\* The starting point the caller asked for.
GivenStart ==
    IF start_arg = None THEN orders[1].pickup_location ELSE start_arg[1]

\* Stop 0 is the starting point, stop k the k-th stop of the route.
StopLocation(k) == IF k = 0 THEN GivenStart ELSE RoutePoints[k].location

RECURSIVE LegsUpTo(_)
LegsUpTo(k) ==
    IF k = 0 THEN 0
    ELSE LegsUpTo(k - 1)
         + calculate_distance(StopLocation(k - 1), StopLocation(k))

\* C5: total_distance is the distance from the starting point to the first
\* stop plus the distances between consecutive stops up to the last one;
\* the starting point is the start supplied, or the first order's pickup,
\* and then the first stop is that pickup and its leg is 0.
C5_TotalDistance ==
    Returned =>
        /\ route[1].total_distance = LegsUpTo(Len(RoutePoints))
        /\ start_arg = None =>
              /\ RoutePoints[1]
                   = Point(orders[1].id, orders[1].pickup_location, TRUE)
              /\ calculate_distance(GivenStart, RoutePoints[1].location) = 0

\* A route from a start that is none of the stops, for two orders or more.
C5_Witness ==
    /\ Returned
    /\ start_arg = Some(DriverLocation)
    /\ Len(orders) >= 2
    /\ calculate_distance(DriverLocation, RoutePoints[1].location) > 0

\* C6: total_time is the largest integer not above total_distance / 30 * 60
\* minutes, which is total_distance * 2: it is never rounded up.
C6_TotalTime ==
    Returned =>
        /\ route[1].total_time >= 0
        /\ route[1].total_time * AvgSpeed * Scale
             <= route[1].total_distance * MinutesPerHour
        /\ route[1].total_distance * MinutesPerHour
             < (route[1].total_time + 1) * AvgSpeed * Scale
        /\ route[1].total_time = (route[1].total_distance * 2) \div Scale

\* A route whose time in minutes has a fraction of a half or more.
C6_Witness ==
    /\ Returned
    /\ route[1].total_time >= 1
    /\ (route[1].total_distance * 2) % Scale >= Scale \div 2

\* Scenario A: one order from (30.0444, 31.2357) to (30.0566, 31.2394),
\* no start supplied.
ScenarioA ==
    /\ orders = <<Order(1, Downtown, Tahrir)>>
    /\ start_arg = None
    /\ Returned

ScenarioA_Stops ==
    /\ Len(RoutePoints) = 2
    /\ RoutePoints[1] = Point(1, Downtown, TRUE)
    /\ RoutePoints[2] = Point(1, Tahrir, FALSE)
    /\ route[1].total_distance = calculate_distance(Downtown, Tahrir)

\* round(total_distance / 30 * 60): the nearest integer
RoundedMinutes(total_distance) ==
    (total_distance * MinutesPerHour * 2 + AvgSpeed * Scale)
        \div (2 * AvgSpeed * Scale)

\* C7 as stated: the distance of scenario A is between 1.8 and 2.0 km and
\* total_time is total_distance / 30 * 60 rounded to the nearest integer.
C7_AsStated ==
    ScenarioA =>
        /\ ScenarioA_Stops
        /\ route[1].total_distance >= 18 * (Scale \div 10)
        /\ route[1].total_distance <= 20 * (Scale \div 10)
        /\ route[1].total_time = RoundedMinutes(route[1].total_distance)

\* C7, amended: in scenario A the route is the pickup then the delivery,
\* total_distance is distance(pickup, delivery), which is between 1.41 and
\* 1.42 km, and total_time is total_distance / 30 * 60 truncated: 2 minutes.
C7_ScenarioA ==
    ScenarioA =>
        /\ ScenarioA_Stops
        /\ route[1].total_distance >= 141 * (Scale \div 100)
        /\ route[1].total_distance <= 142 * (Scale \div 100)
        /\ route[1].total_time = (route[1].total_distance * 2) \div Scale
        /\ route[1].total_time = 2

C7_Witness == ScenarioA /\ pc = "returned"

-----------------------------------------------------------------------------
(* Properties of calculate_profits *)

\* calculate_profits has returned, for the route of optimize_route or for
\* a route of the caller's own
Evaluated == pc \in {"done", "evaluated"}

\* The round trips pickup -> delivery -> pickup of the first k orders.
RECURSIVE RoundTripsUpTo(_)
RoundTripsUpTo(k) ==
    IF k = 0 THEN 0
    ELSE RoundTripsUpTo(k - 1)
         + 2 * calculate_distance(orders[k].pickup_location,
                                  orders[k].delivery_location)

RoundTrips == RoundTripsUpTo(Len(orders))

\* Scenario B: two orders forming a loop, X -> Y and Y -> X, no start.
ScenarioB ==
    /\ pc = "done"
    /\ Len(orders) = 2
    /\ start_arg = None
    /\ orders[1].pickup_location # orders[1].delivery_location
    /\ orders[2].pickup_location = orders[1].delivery_location
    /\ orders[2].delivery_location = orders[1].pickup_location

ScenarioB_Route ==
    /\ \A i \in 1..2 :
          /\ PickupIndexes(orders[i].id) # {}
          /\ DeliveryIndexes(orders[i].id) # {}
          /\ \A a \in PickupIndexes(orders[i].id),
                b \in DeliveryIndexes(orders[i].id) : a < b
    /\ route[1].total_distance < RoundTrips
    /\ profit_info[1].distance_saved > 0

\* C8 as stated: in scenario B both orders are in the route in precedence
\* order, the route is shorter than the two round trips, distance_saved is
\* positive and the merged profit is at least the individual profit.
C8_AsStated ==
    ScenarioB =>
        /\ ScenarioB_Route
        /\ profit_info[1].merged_profit >= profit_info[1].individual_profit

\* C8, amended: as stated, but the merged profit is strictly less than the
\* individual profit (the fee per km is paid on the shorter distance).
C8_ScenarioB ==
    ScenarioB =>
        /\ ScenarioB_Route
        /\ profit_info[1].merged_profit < profit_info[1].individual_profit

C8_Witness == ScenarioB /\ profit_info # None

\* C9: for a non-empty order list calculate_profits returns, and
\* merged_profit = count * base_fee + route.total_distance * per_km_fee,
\* individual_profit = count * base_fee + individual_distance * per_km_fee,
\* individual_distance being the sum of the orders' round trips; also when
\* distance_saved is zero or negative.
C9_Profits ==
    (Evaluated /\ orders # <<>>) =>
        /\ profit_info # None
        /\ error = None
        /\ profit_info[1].merged_profit
             = Len(orders) * base_fee_per_order * Scale
               + route[1].total_distance * distance_fee_per_km
        /\ profit_info[1].individual_profit
             = Len(orders) * base_fee_per_order * Scale
               + RoundTrips * distance_fee_per_km

\* Three orders at three different pickup places, and nothing saved.
C9_Witness ==
    /\ pc = "done"
    /\ Len(orders) = 3
    /\ Cardinality({ orders[i].pickup_location : i \in 1..3 }) = 3
    /\ profit_info[1].distance_saved <= 0

\* C10 as stated: distance_saved = individual_distance - total_distance and
\* time_saved = individual_total_time - route.total_time, the individual
\* time being individual_distance / 30 * 60 truncated to whole minutes.
C10_Savings ==
    Evaluated =>
        /\ profit_info[1].distance_saved
             = RoundTrips - route[1].total_distance
        /\ profit_info[1].time_saved
             = ((RoundTrips * 2) \div Scale) - route[1].total_time

-----------------------------------------------------------------------------
(* Properties of the empty order list *)

\* C3: optimize_route called with an empty order list, with or without a
\* start, raises ValueError and returns no Route; in the optimize endpoint
\* the error goes to the caller, and the request ends without a response
\* carrying a route or profit figures.
C3_EmptyRejected ==
    /\ [][ (pc = "ready" /\ orders = <<>>) =>
             /\ pc' = "raised"
             /\ error' = Some("ValueError")
             /\ route' = None
             /\ profit_info' = None
             /\ response' = None ]_vars
    /\ [][ (pc = "raised") =>
             /\ pc' = "idle"
             /\ route' = None
             /\ profit_info' = None
             /\ response' = None ]_vars

\* An optimize request with no order ids and a current location has failed
\* with ValueError.
C3_Witness ==
    /\ pc = "raised"
    /\ error = Some("ValueError")
    /\ orders = <<>>
    /\ start_arg # None
    /\ db # <<>>

-----------------------------------------------------------------------------
(* Properties of the two phases *)

\* Some order already picked up has its delivery nearer to the place the
\* driver stood at, before the last stop was chosen, than that stop is.
DeliveryWasNearer ==
    LET k == Len(optimized_points)
        stood == optimized_points[k - 1].location
    IN  \E j \in 1..(k - 1) :
            /\ optimized_points[j].is_pickup
            /\ \E u \in 1..Len(unvisited) :
                  /\ ~unvisited[u].is_pickup
                  /\ unvisited[u].order_id = optimized_points[j].order_id
                  /\ calculate_distance(stood, unvisited[u].location)
                       < calculate_distance(stood, optimized_points[k].location)

\* C13: in the route returned for N orders the first N stops are pickups
\* and the last N stops are deliveries, and no step appends a delivery
\* while a pickup is unvisited.
C13_PickupsFirst ==
    /\ [](Returned =>
            /\ \A k \in 1..Len(orders) : RoutePoints[k].is_pickup
            /\ \A k \in (Len(orders) + 1)..(2 * Len(orders)) :
                  ~RoutePoints[k].is_pickup)
    /\ [][ (Appends /\ ~Chosen.is_pickup) =>
             \A u \in 1..Len(unvisited) : ~unvisited[u].is_pickup ]_vars

\* The pickup loop has just appended a pickup although the delivery of an
\* order already picked up was nearer.
C13_Witness ==
    /\ pc = "pickups"
    /\ Len(optimized_points) >= 2
    /\ optimized_points[Len(optimized_points)].is_pickup
    /\ DeliveryWasNearer

====
